---------------------------- MODULE Spec2Model ----------------------------
(***************************************************************************)
(* Model of the Arma / Steam server query client                           *)
(* (src/arma_server_query/server.py): the A2S_INFO round trip, the         *)
(* two-phase A2S_PLAYER exchange and the two decoders info() and           *)
(* players().  Further specifications over the same definitions: LoopSpec  *)
(* (the loop of players() step by step), NetSpec (the calls over the one   *)
(* UDP socket), BotSpec (src/ArmaServerInfoDiscordBot.py) and LegacySpec   *)
(* (src/ArmaServerQuery/ArmaServerQuery.py).                               *)
(*                                                                         *)
(* Byte strings are sequences of integers 0..255.  Python indexes from 0,  *)
(* TLA+ sequences from 1: every index below is a Python (0-based) index    *)
(* and At / Slice / Find translate.                                        *)
(***************************************************************************)
EXTENDS Integers, Sequences, FiniteSets, TLC

(***************************************************************************)
(* Python bytes primitives.                                                *)
(***************************************************************************)

\* response[i] for an index inside the byte string
At(s, i) == s[i + 1]

\* how Python turns a slice / find bound into an offset in 0..len(s):
\* a negative bound counts from the end, and everything is clamped
ClampIndex(s, i) ==
    IF i < 0
      THEN (IF Len(s) + i < 0 THEN 0 ELSE Len(s) + i)
      ELSE (IF i > Len(s) THEN Len(s) ELSE i)

\* response[i:j]
Slice(s, i, j) ==
    LET lo == ClampIndex(s, i)
        hi == ClampIndex(s, j)
    IN  IF lo >= hi THEN << >> ELSE SubSeq(s, lo + 1, hi)

\* response[i:]
SliceFrom(s, i) == Slice(s, i, Len(s))

\* response.find(bytes([b]), start): the lowest index >= start holding b, or -1
Find(s, b, start) ==
    LET lo   == ClampIndex(s, start)
        hits == {k \in lo .. (Len(s) - 1) : At(s, k) = b}
    IN  IF start > Len(s) \/ hits = {}
          THEN -1
          ELSE CHOOSE k \in hits : \A m \in hits : k <= m

\* int.from_bytes(b, byteorder="big") for the slices of at most one byte
\* the code passes (the empty slice gives 0)
IntFromBytes(b) == IF b = << >> THEN 0 ELSE b[1]

(***************************************************************************)
(* decode(str, "UTF-8", errors="replace").  Text is a sequence of code     *)
(* points.  One- and two-byte forms are decoded; every byte that starts no *)
(* valid sequence becomes U+FFFD and decoding resumes at the next byte.    *)
(* The datagrams of this model hold no lead byte of a three- or four-byte  *)
(* form (0xE0..0xF4).                                                      *)
(***************************************************************************)
RECURSIVE Utf8From(_, _)
Utf8From(b, i) ==
    IF i > Len(b) THEN << >>
    ELSE IF b[i] < 128 THEN <<b[i]>> \o Utf8From(b, i + 1)
    ELSE IF /\ b[i] >= 194 /\ b[i] <= 223
            /\ i < Len(b) /\ b[i + 1] >= 128 /\ b[i + 1] <= 191
      THEN <<(b[i] - 192) * 64 + (b[i + 1] - 128)>> \o Utf8From(b, i + 2)
    ELSE <<65533>> \o Utf8From(b, i + 1)

decode(b) == Utf8From(b, 1)

(***************************************************************************)
(* Return values.  A Python dict and a Python list are different kinds of  *)
(* value even when both are empty, and an exception that leaves the method *)
(* is a third kind.                                                        *)
(***************************************************************************)
EmptyDict == [kind |-> "dict", len |-> 0]
InfoDict(n, m, mi, pc, pl) ==
    [kind |-> "dict", len |-> 5, name |-> n, map |-> m, mission |-> mi,
     player_count |-> pc, player_limit |-> pl]
PyList(items) == [kind |-> "list", items |-> items]
Raised(exc) == [kind |-> "raise", exc |-> exc]
Pending == [kind |-> "pending"]

(***************************************************************************)
(* ArmaServer.info, from the raw response on: the body of `if response:`.  *)
(***************************************************************************)
NameStart(r)    == 1 + Find(r, 17, 0)
NameEnd(r)      == Find(r, 0, NameStart(r))
MapStart(r)     == 1 + NameEnd(r)
MapEnd(r)       == Find(r, 0, MapStart(r))
\* variant: the mission is the field right after the map
MissionStartNoSkip(r) == 1 + MapEnd(r)
MissionStart(r) == 1 + Find(r, 0, MapEnd(r) + 1)
MissionEnd(r)   == Find(r, 0, MissionStart(r))
\* variant: the counts are read right after the mission terminator
CountIdxAdjacent(r) == 1 + Find(r, 0, MissionEnd(r))
CountIdx(r)     == 3 + Find(r, 0, MissionEnd(r))

\* variant: a response without the 0x11 marker gives no info
InfoDecodeChecksMarker(response) ==
    IF response = << >> \/ Find(response, 17, 0) < 0 THEN EmptyDict
    ELSE InfoDict(decode(Slice(response, NameStart(response), NameEnd(response))),
                  decode(Slice(response, MapStart(response), MapEnd(response))),
                  decode(Slice(response, MissionStart(response), MissionEnd(response))),
                  IntFromBytes(Slice(response, CountIdx(response), CountIdx(response) + 1)),
                  IntFromBytes(Slice(response, CountIdx(response) + 1, CountIdx(response) + 2)))

InfoDecode(response) ==
    IF response = << >> THEN EmptyDict
    ELSE InfoDict(decode(Slice(response, NameStart(response), NameEnd(response))),
                  decode(Slice(response, MapStart(response), MapEnd(response))),
                  decode(Slice(response, MissionStart(response), MissionEnd(response))),
                  IntFromBytes(Slice(response, CountIdx(response), CountIdx(response) + 1)),
                  IntFromBytes(Slice(response, CountIdx(response) + 1, CountIdx(response) + 2)))

(***************************************************************************)
(* struct.unpack("f", b)[0] followed by the two divmod calls and the two   *)
(* int() conversions of players().  b is read little-endian (the native    *)
(* order of x86 and ARM builds): b[4] holds the sign and the high exponent *)
(* bits.  The value is sig * 2^(-shift), kept as that pair.                *)
(***************************************************************************)
RECURSIVE Pow2(_)
Pow2(n) == IF n = 0 THEN 1 ELSE 2 * Pow2(n - 1)

FloatNegative(b) == b[4] >= 128
FloatExp(b)      == (b[4] % 128) * 2 + (b[3] \div 128)
FloatFraction(b) == (b[3] % 128) * 65536 + b[2] * 256 + b[1]
FloatSig(b)      == IF FloatExp(b) = 0 THEN FloatFraction(b)
                                       ELSE 8388608 + FloatFraction(b)
FloatShift(b)    == IF FloatExp(b) = 0 THEN 149 ELSE 150 - FloatExp(b)
\* inf and nan: divmod turns both into nan, and int(nan) raises ValueError
FloatNotFinite(b) == FloatExp(b) = 255
\* finite, but the hour count needs more than 31 bits
FloatHuge(b) == FloatExp(b) > 156 /\ FloatExp(b) < 255

\* minutes, seconds = divmod(seconds, 60): the floor of seconds / 60
TotalMinutes(b) ==
    LET sig == IF FloatNegative(b) THEN 0 - FloatSig(b) ELSE FloatSig(b)
        sh  == FloatShift(b)
    IN  IF sh <= 0 THEN (sig * Pow2(0 - sh)) \div 60
        ELSE IF sh <= 24 THEN sig \div (60 * Pow2(sh))
        ELSE IF sig < 0 THEN -1 ELSE 0

\* "{:02}:{:02}".format(int(hours), int(minutes)), kept as the two integers
\* the format prints
TimeOf(b) ==
    IF FloatHuge(b) THEN [huge |-> TRUE, negative |-> FloatNegative(b)]
    ELSE [huge |-> FALSE, hours |-> TotalMinutes(b) \div 60,
          minutes |-> TotalMinutes(b) % 60]

(***************************************************************************)
(* ArmaServer.players, from the raw response on.                           *)
(***************************************************************************)
\* variant: the guard asks for nine bytes after the terminator
IncompleteRecordNine(idx, idx_max) == idx + 8 > idx_max

\* the guard `if idx+7 > idx_max: break`
IncompleteRecord(idx, idx_max) == idx + 7 > idx_max

\* variant: the cursor moves to the byte right after the float
NextStartEight(idx) == idx + 8

\* variant: the cursor goes back to the terminator just found
NextStartStay(idx) == idx - 1

\* `idx_start = idx+9`
NextStart(idx) == idx + 9

\* one pass of the while loop, then the rest of the loop
RECURSIVE PlayersLoop(_, _, _)
PlayersLoop(response, idx_start, player_list) ==
    LET idx_max == Len(response) - 1
        idx_end == Find(response, 0, idx_start)
        idx     == 1 + idx_end
        raw     == Slice(response, idx + 4, idx + 8)
    IN  IF idx_start > idx_max THEN PyList(player_list)
        ELSE IF idx_end < 0 THEN PyList(player_list)
        ELSE IF IncompleteRecord(idx, idx_max) THEN PyList(player_list)
        ELSE IF idx > idx_max THEN Raised("IndexError")
        ELSE IF Len(raw) # 4 THEN Raised("struct.error")
        ELSE IF FloatNotFinite(raw) THEN Raised("ValueError")
        ELSE PlayersLoop(response, NextStart(idx),
                 Append(player_list,
                        [name  |-> decode(Slice(response, idx_start, idx_end)),
                         score |-> At(response, idx),
                         time  |-> TimeOf(raw)]))

PlayersDecode(response) ==
    IF response = << >> THEN EmptyDict
    ELSE PlayersLoop(response, 1 + Find(response, 0, 0), << >>)

(***************************************************************************)
(* The three requests (query_types, imported by server.py; the legacy      *)
(* module ArmaServerQuery.py defines the same three names).                *)
(***************************************************************************)
A2S_INFO ==
    <<255, 255, 255, 255, 84, 83, 111, 117, 114, 99, 101, 32, 69, 110, 103,
      105, 110, 101, 32, 81, 117, 101, 114, 121, 0>>
A2S_PLAYER_PREFIX == <<255, 255, 255, 255, 85>>
A2S_PLAYER_CHALLENGE_POSTFIX == <<255, 255, 255, 255>>

(***************************************************************************)
(* The datagrams the network can deliver.  The peer is untrusted, so the   *)
(* set holds well-formed replies, every truncation of them, and short      *)
(* arbitrary byte strings.                                                 *)
(***************************************************************************)
\* player records per generated A2S_PLAYER reply
MaxRecords == 2
\* length of the arbitrary byte strings
MaxGarbage == 2
\* length of the datagrams delivered as challenge replies
MaxChallengeLen == 12

Hdr(kind) == <<255, 255, 255, 255, kind>>
Prefixes(s) == {SubSeq(s, 1, n) : n \in 0 .. Len(s)}

\* record templates: name bytes, score byte, connected-seconds bytes
\*   1: "A", 7, 60.0          2: C3 80 FF (U+00C0 then an invalid byte), 200, -60.0
\*   3: "C", 1, NaN
RecName  == << <<65>>, <<195, 128, 255>>, <<67>> >>
RecScore == << 7, 200, 1 >>
RecTime  == << <<0, 0, 112, 66>>, <<0, 0, 112, 194>>, <<0, 0, 192, 127>> >>
NumTemplates == Len(RecName)

\* the bytes of one record: index byte, name, terminator, 4-byte score, 4-byte float
RecBytes(t, index) ==
    <<index>> \o RecName[t] \o <<0>> \o <<RecScore[t], 0, 0, 0>> \o RecTime[t]

RECURSIVE RecsBytes(_, _)
RecsBytes(ts, k) ==
    IF k > Len(ts) THEN << >>
    ELSE RecBytes(ts[k], k - 1) \o RecsBytes(ts, k + 1)

RecSeqs == UNION {[1 .. n -> 1 .. NumTemplates] : n \in 0 .. MaxRecords}

\* A2S_PLAYER reply: header 'D', player count, records
PlayerMsg(ts) == Hdr(68) \o <<Len(ts)>> \o RecsBytes(ts, 1)

\* the same records laid back to back: no index byte between the
\* connected-seconds field of one record and the name of the next
RECURSIVE PackedBytes(_, _)
PackedBytes(ts, k) ==
    IF k > Len(ts) THEN << >>
    ELSE RecName[ts[k]] \o <<0>> \o <<RecScore[ts[k]], 0, 0, 0>> \o RecTime[ts[k]]
         \o PackedBytes(ts, k + 1)

PackedMsg(ts) == Hdr(68) \o <<Len(ts), 0>> \o PackedBytes(ts, 1)

\* MaxRecords records of the templates 1 and 2
PackedSeqs == [1 .. MaxRecords -> {1, 2}]

\* A2S_INFO replies: header 'I', protocol byte 0x11, name, map, folder,
\* game, then further bytes
\* FF FF FF FF 49 11 "MyServer" 00 "de_dust" 00 00 "briefing" 00 05 10
Scenario ==
    Hdr(73) \o <<17, 77, 121, 83, 101, 114, 118, 101, 114, 0,
                 100, 101, 95, 100, 117, 115, 116, 0, 0,
                 98, 114, 105, 101, 102, 105, 110, 103, 0, 5, 16>>

InfoMsgs ==
    { Scenario \o <<7, 8>>,
      Hdr(73) \o <<17, 65, 0, 66, 0, 67, 0, 68, 0, 9, 9, 5, 16, 1>>,
      Hdr(73) \o <<17, 195, 128, 255, 0, 0, 0, 0, 1, 2, 3, 4>> }

\* challenge replies: header 'A', 4-byte token (one of them with a trailing byte)
ChallengeMsgs ==
    { Hdr(65) \o <<1, 2, 3, 4, 9>>,
      Hdr(65) \o <<255, 255, 255, 255>> }

GarbageBytes == {0, 17, 65}
Garbage == UNION {[1 .. n -> GarbageBytes] : n \in 0 .. MaxGarbage}

Datagrams ==
    UNION {Prefixes(m) : m \in InfoMsgs \cup ChallengeMsgs
                                \cup {PlayerMsg(ts) : ts \in RecSeqs}
                                \cup {PackedMsg(ts) : ts \in PackedSeqs}}
    \cup Garbage

ChallengeDatagrams == {d \in Datagrams : Len(d) <= MaxChallengeLen}

(***************************************************************************)
(* The client.  A call is split where the code blocks in recvfrom.         *)
(***************************************************************************)
VARIABLES
    pc,       \* "idle", or the recvfrom the running call is blocked in
    op,       \* the method called last: "none", "info", "players"
    sent,     \* the sendto calls of that call, in order: [site, bytes]
    rcvd,     \* the recvfrom outcomes of that call, in order: [ok, data]
    postfix,  \* the local A2S_PLAYER_POSTFIX (empty outside A2S_players)
    result,   \* what the call returned (Pending while it runs)
    attrs,    \* self.__dict__
    loop,     \* the while loop of players(), run one iteration at a time
    net,      \* the UDP path: replies in flight and the socket's receive buffer
    bot,      \* ArmaServerInfoDiscordBot: its worker task, CHANNEL_FILE, the channel
    legacy    \* ArmaServerQuery.py: an ArmaServer object and its SteamServerQuery

vars == <<pc, op, sent, rcvd, postfix, result, attrs, loop, net, bot, legacy>>

Got(d)  == [ok |-> TRUE, data |-> d]
TimedOut == [ok |-> FALSE, data |-> << >>]

\* no players() call is in its loop
LoopIdle ==
    [pc |-> "idle", response |-> << >>, idx_start |-> 0, player_list |-> << >>,
     iterations |-> 0, result |-> Pending]

\* the socket right after `socket.socket(AF_INET, SOCK_DGRAM)`: nothing
\* sent, nothing received
NetIdle == [call |-> 0, inflight |-> {}, buffer |-> << >>, consumed |-> << >>]

\* a finished (or not yet started) polling cycle: what the cycle did to the
\* status message
NoCycle == [notfound |-> FALSE, created |-> FALSE, edited |-> FALSE]

\* the bot process is not running; CHANNEL_FILE does not exist and the
\* channel holds no message.  Message ids are decimal strings (sequences of
\* digits), `fresh` is the number the next created message gets.
BotOff ==
    [pc |-> "off", closed |-> FALSE, message |-> << >>,
     file |-> [present |-> FALSE, bytes |-> << >>],
     channel |-> {}, fresh |-> 1,
     server_info |-> Pending, player_info_list |-> Pending,
     embed |-> Pending, presence |-> Pending, error |-> "",
     cycle |-> NoCycle, created_last |-> << >>]

\* ArmaServerQuery.py: ArmaServer.__init__ and SteamServerQuery.__init__;
\* `sent` and `returns` log the sendto calls and the returns of the two query
\* methods during the running updateInfo call, `ret` holds what it returned
LegacyInit ==
    [pc |-> "idle", name |-> << >>, map |-> << >>, mission |-> << >>,
     playerList |-> << >>, playerNumbers |-> <<0, 0>>, online |-> FALSE,
     client |-> "None", response |-> << >>, postfix |-> << >>,
     sent |-> << >>, returns |-> << >>, ret |-> << >>]

\* SteamServer.__init__
InitAttrs ==
    [address |-> "address", max_response_time |-> "max_response_time",
     buffer_size |-> "buffer_size", client |-> "socket"]

Init ==
    /\ pc = "idle"
    /\ op = "none"
    /\ sent = << >>
    /\ rcvd = << >>
    /\ postfix = << >>
    /\ result = Pending
    /\ attrs = InitAttrs
    /\ loop = LoopIdle
    /\ net = NetIdle
    /\ bot = BotOff
    /\ legacy = LegacyInit

\* `self.online = False`
SetOnlineFalse(a) ==
    [k \in DOMAIN a \cup {"online"} |-> IF k = "online" THEN "False" ELSE a[k]]

\* info() up to the recvfrom of A2S_info
CallInfo ==
    /\ pc = "idle"
    /\ pc' = "info_wait"
    /\ op' = "info"
    /\ sent' = <<[site |-> "info", bytes |-> A2S_INFO]>>
    /\ rcvd' = << >>
    /\ postfix' = << >>
    /\ result' = Pending
    /\ UNCHANGED attrs

\* recvfrom returns a datagram: A2S_info returns it and info() decodes it
InfoRecv ==
    /\ pc = "info_wait"
    /\ \E d \in Datagrams :
         /\ rcvd' = Append(rcvd, Got(d))
         /\ result' = InfoDecode(d)
    /\ pc' = "idle"
    /\ UNCHANGED <<op, sent, postfix, attrs>>

\* recvfrom raises timeout: A2S_info returns b"" and info() returns {}
InfoTimeout ==
    /\ pc = "info_wait"
    /\ rcvd' = Append(rcvd, TimedOut)
    /\ attrs' = SetOnlineFalse(attrs)
    /\ result' = InfoDecode(<< >>)
    /\ pc' = "idle"
    /\ UNCHANGED <<op, sent, postfix>>

\* players() up to the first recvfrom of A2S_players
CallPlayers ==
    /\ pc = "idle"
    /\ pc' = "challenge_wait"
    /\ op' = "players"
    /\ sent' = <<[site |-> "challenge",
                  bytes |-> A2S_PLAYER_PREFIX \o A2S_PLAYER_CHALLENGE_POSTFIX]>>
    /\ rcvd' = << >>
    /\ postfix' = << >>
    /\ result' = Pending
    /\ UNCHANGED attrs

\* `A2S_PLAYER_POSTFIX = response[5:]`
ChallengePostfix(response) == SliceFrom(response, 5)

\* `A2S_PLAYER_PREFIX + A2S_PLAYER_POSTFIX`
PlayerRequest(p) == A2S_PLAYER_PREFIX \o p

\* the first recvfrom returns: the data query is sent
ChallengeRecv ==
    /\ pc = "challenge_wait"
    /\ \E d \in ChallengeDatagrams :
         /\ rcvd' = Append(rcvd, Got(d))
         /\ postfix' = ChallengePostfix(d)
         /\ sent' = Append(sent, [site |-> "data",
                                  bytes |-> PlayerRequest(ChallengePostfix(d))])
    /\ pc' = "data_wait"
    /\ UNCHANGED <<op, result, attrs>>

\* variant: the timeout handler of the challenge query falls through to the
\* data query
ChallengeTimeoutFallsThrough ==
    /\ pc = "challenge_wait"
    /\ rcvd' = Append(rcvd, TimedOut)
    /\ sent' = Append(sent, [site |-> "data", bytes |-> PlayerRequest(postfix)])
    /\ pc' = "data_wait"
    /\ UNCHANGED <<op, postfix, result, attrs>>

\* the first recvfrom raises timeout: A2S_players returns b""
ChallengeTimeout ==
    /\ pc = "challenge_wait"
    /\ rcvd' = Append(rcvd, TimedOut)
    /\ result' = PlayersDecode(<< >>)
    /\ pc' = "idle"
    /\ UNCHANGED <<op, sent, postfix, attrs>>

\* variant: the guard compares the postfix with the whole response
StaleEchoWhole(p, response) == p = response

\* `if(A2S_PLAYER_POSTFIX == response[5:])`
StaleEcho(p, response) == p = SliceFrom(response, 5)

\* what A2S_players returns once the second recvfrom has returned
A2S_players_return(p, response) ==
    IF StaleEcho(p, response) THEN << >> ELSE response

\* the second recvfrom returns
DataRecv ==
    /\ pc = "data_wait"
    /\ \E d \in Datagrams :
         /\ rcvd' = Append(rcvd, Got(d))
         /\ result' = PlayersDecode(A2S_players_return(postfix, d))
    /\ postfix' = << >>
    /\ pc' = "idle"
    /\ UNCHANGED <<op, sent, attrs>>

\* variant: the data query is sent again after a timeout
DataTimeoutRetries ==
    /\ pc = "data_wait"
    /\ rcvd' = Append(rcvd, TimedOut)
    /\ sent' = Append(sent, [site |-> "data", bytes |-> PlayerRequest(postfix)])
    /\ UNCHANGED <<pc, op, postfix, result, attrs>>

\* the second recvfrom raises timeout
DataTimeout ==
    /\ pc = "data_wait"
    /\ rcvd' = Append(rcvd, TimedOut)
    /\ result' = PlayersDecode(<< >>)
    /\ postfix' = << >>
    /\ pc' = "idle"
    /\ UNCHANGED <<op, sent, attrs>>

\* the calls of one ArmaServer object, any datagram or a timeout at every
\* recvfrom
Next ==
    \/ CallInfo /\ UNCHANGED <<loop, net, bot, legacy>>
    \/ InfoRecv /\ UNCHANGED <<loop, net, bot, legacy>>
    \/ InfoTimeout /\ UNCHANGED <<loop, net, bot, legacy>>
    \/ CallPlayers /\ UNCHANGED <<loop, net, bot, legacy>>
    \/ ChallengeRecv /\ UNCHANGED <<loop, net, bot, legacy>>
    \/ ChallengeTimeout /\ UNCHANGED <<loop, net, bot, legacy>>
    \/ DataRecv /\ UNCHANGED <<loop, net, bot, legacy>>
    \/ DataTimeout /\ UNCHANGED <<loop, net, bot, legacy>>

Spec == Init /\ [][Next]_vars

(***************************************************************************)
(* The while loop of players() one iteration at a time: `loop` holds the   *)
(* locals response, idx_start and player_list, and counts the iterations.  *)
(***************************************************************************)
clientVars == <<pc, op, sent, rcvd, postfix, result, attrs>>

LoopIdxMax == Len(loop.response) - 1
LoopIdxEnd == Find(loop.response, 0, loop.idx_start)
LoopIdx    == 1 + LoopIdxEnd
LoopRaw    == Slice(loop.response, LoopIdx + 4, LoopIdx + 8)

\* the loop body is entered and gets past both break statements
LoopInBody ==
    /\ loop.pc = "while"
    /\ loop.idx_start <= LoopIdxMax
    /\ LoopIdxEnd >= 0
    /\ ~IncompleteRecord(LoopIdx, LoopIdxMax)

LoopFails ==
    \/ LoopIdx > LoopIdxMax
    \/ Len(LoopRaw) # 4
    \/ FloatNotFinite(LoopRaw)

\* players() with a non-empty response, up to the while statement
LoopEnter ==
    /\ loop.pc \in {"idle", "done"}
    /\ \E response \in Datagrams \ {<< >>} :
         loop' = [pc |-> "while", response |-> response,
                  idx_start |-> 1 + Find(response, 0, 0),
                  player_list |-> << >>, iterations |-> 0, result |-> Pending]
    /\ UNCHANGED <<clientVars, net, bot, legacy>>

\* `while idx_start <= idx_max` is false: `return(player_list)`
LoopCondFalse ==
    /\ loop.pc = "while"
    /\ loop.idx_start > LoopIdxMax
    /\ loop' = [loop EXCEPT !.pc = "done", !.result = PyList(loop.player_list)]
    /\ UNCHANGED <<clientVars, net, bot, legacy>>

\* `if idx_end < 0: break`
LoopBreakNoTerminator ==
    /\ loop.pc = "while"
    /\ loop.idx_start <= LoopIdxMax
    /\ LoopIdxEnd < 0
    /\ loop' = [loop EXCEPT !.pc = "done", !.result = PyList(loop.player_list),
                            !.iterations = @ + 1]
    /\ UNCHANGED <<clientVars, net, bot, legacy>>

\* `if idx+7 > idx_max: break`
LoopBreakIncomplete ==
    /\ loop.pc = "while"
    /\ loop.idx_start <= LoopIdxMax
    /\ LoopIdxEnd >= 0
    /\ IncompleteRecord(LoopIdx, LoopIdxMax)
    /\ loop' = [loop EXCEPT !.pc = "done", !.result = PyList(loop.player_list),
                            !.iterations = @ + 1]
    /\ UNCHANGED <<clientVars, net, bot, legacy>>

\* the score index, the unpack or the int() of the iteration raises
LoopRaise ==
    /\ LoopInBody
    /\ LoopFails
    /\ loop' = [loop EXCEPT !.pc = "done", !.iterations = @ + 1,
                  !.result = IF LoopIdx > LoopIdxMax THEN Raised("IndexError")
                             ELSE IF Len(LoopRaw) # 4 THEN Raised("struct.error")
                             ELSE Raised("ValueError")]
    /\ UNCHANGED <<clientVars, net, bot, legacy>>

\* a complete iteration: the record is appended, `idx_start = idx+9`
LoopAppend ==
    /\ LoopInBody
    /\ ~LoopFails
    /\ loop' = [loop EXCEPT
                  !.idx_start = NextStart(LoopIdx),
                  !.iterations = @ + 1,
                  !.player_list =
                      Append(@, [name  |-> decode(Slice(loop.response,
                                                        loop.idx_start, LoopIdxEnd)),
                                 score |-> At(loop.response, LoopIdx),
                                 time  |-> TimeOf(LoopRaw)])]
    /\ UNCHANGED <<clientVars, net, bot, legacy>>

LoopNext ==
    \/ LoopEnter
    \/ LoopCondFalse
    \/ LoopBreakNoTerminator
    \/ LoopBreakIncomplete
    \/ LoopRaise
    \/ LoopAppend

LoopSpec == Init /\ [][LoopNext]_vars

(***************************************************************************)
(* The calls over the one UDP socket the object keeps (self.client): a     *)
(* game server that answers requests, replies that travel for any time,    *)
(* and a receive buffer that recvfrom reads in arrival order.  Each reply  *)
(* carries the number of the call that sent its request.                   *)
(***************************************************************************)
\* calls of one run
MaxCalls == 2

ServerToken == <<1, 2, 3, 4>>
ServerInfoReply == Hdr(73) \o <<17, 65, 0, 66, 0, 67, 0, 68, 0, 9, 9, 5, 16, 1>>
ServerChallengeReply == Hdr(65) \o ServerToken
ServerPlayerReply == PlayerMsg(<<1>>)

\* what a game server answers: the info record, the player records for a
\* player request with its token, a challenge for any other player request
ServerReply(request) ==
    IF request = A2S_INFO THEN ServerInfoReply
    ELSE IF request = A2S_PLAYER_PREFIX \o ServerToken THEN ServerPlayerReply
    ELSE ServerChallengeReply

\* sendto: the request leaves; the server answers it or not
NetSend(n, request, answered) ==
    IF answered
    THEN [n EXCEPT !.inflight =
             @ \cup {[call |-> n.call, request |-> request,
                      data |-> ServerReply(request)]}]
    ELSE n

\* recvfrom returns the oldest datagram of the receive buffer
NetTake(n) ==
    [n EXCEPT !.buffer = Tail(@), !.consumed = Append(@, Head(n.buffer))]

NetCallInfo ==
    /\ net.call < MaxCalls
    /\ CallInfo
    /\ \E answered \in BOOLEAN :
         net' = NetSend([net EXCEPT !.call = @ + 1, !.consumed = << >>],
                        A2S_INFO, answered)
    /\ UNCHANGED <<loop, bot, legacy>>

NetCallPlayers ==
    /\ net.call < MaxCalls
    /\ CallPlayers
    /\ \E answered \in BOOLEAN :
         net' = NetSend([net EXCEPT !.call = @ + 1, !.consumed = << >>],
                        A2S_PLAYER_PREFIX \o A2S_PLAYER_CHALLENGE_POSTFIX, answered)
    /\ UNCHANGED <<loop, bot, legacy>>

\* a reply arrives at the socket, whatever the client is doing
NetArrive ==
    /\ \E m \in net.inflight :
         net' = [net EXCEPT !.inflight = @ \ {m}, !.buffer = Append(@, m)]
    /\ UNCHANGED <<clientVars, loop, bot, legacy>>

NetInfoRecv ==
    /\ net.buffer # << >>
    /\ InfoRecv
    /\ rcvd'[Len(rcvd')] = Got(Head(net.buffer).data)
    /\ net' = NetTake(net)
    /\ UNCHANGED <<loop, bot, legacy>>

\* recvfrom raises timeout only if nothing has arrived
NetInfoTimeout ==
    /\ net.buffer = << >>
    /\ InfoTimeout
    /\ UNCHANGED <<loop, net, bot, legacy>>

NetChallengeRecv ==
    /\ net.buffer # << >>
    /\ ChallengeRecv
    /\ rcvd'[Len(rcvd')] = Got(Head(net.buffer).data)
    /\ \E answered \in BOOLEAN :
         net' = NetSend(NetTake(net), sent'[Len(sent')].bytes, answered)
    /\ UNCHANGED <<loop, bot, legacy>>

NetChallengeTimeout ==
    /\ net.buffer = << >>
    /\ ChallengeTimeout
    /\ UNCHANGED <<loop, net, bot, legacy>>

NetDataRecv ==
    /\ net.buffer # << >>
    /\ DataRecv
    /\ rcvd'[Len(rcvd')] = Got(Head(net.buffer).data)
    /\ net' = NetTake(net)
    /\ UNCHANGED <<loop, bot, legacy>>

NetDataTimeout ==
    /\ net.buffer = << >>
    /\ DataTimeout
    /\ UNCHANGED <<loop, net, bot, legacy>>

NetNext ==
    \/ NetCallInfo
    \/ NetCallPlayers
    \/ NetArrive
    \/ NetInfoRecv
    \/ NetInfoTimeout
    \/ NetChallengeRecv
    \/ NetChallengeTimeout
    \/ NetDataRecv
    \/ NetDataTimeout

NetSpec == Init /\ [][NetNext]_vars

(***************************************************************************)
(* The Discord bot (src/ArmaServerInfoDiscordBot.py): the worker task that *)
(* polls the game server and keeps one status message in a channel.  The   *)
(* Discord calls are the environment: each returns or raises NotFound or   *)
(* another HTTPException, and a message of the channel can be deleted at   *)
(* any time.                                                               *)
(***************************************************************************)
\* status messages created in one run
MaxMessages == 2

\* str(n) and int(s) for the one-digit message numbers of this model
str(n) == <<n>>
int(s) == s[1]

\* int.to_bytes(8, byteorder="big") and int.from_bytes(b, byteorder="big")
ToBytes8(n) == <<0, 0, 0, 0, 0, 0, 0, n>>
RECURSIVE FromBytesBig(_)
FromBytesBig(b) ==
    IF b = << >> THEN 0
    ELSE 256 * FromBytesBig(SubSeq(b, 1, Len(b) - 1)) + b[Len(b)]

\* lines 40-45 of __init__
MessageIdAtStart(file) ==
    IF file.present THEN str(FromBytesBig(file.bytes)) ELSE << >>

\* str < str in Python: by code points
RECURSIVE StrLess(_, _)
StrLess(a, b) ==
    IF b = << >> THEN FALSE
    ELSE IF a = << >> THEN TRUE
    ELSE IF a[1] # b[1] THEN a[1] < b[1]
    ELSE StrLess(Tail(a), Tail(b))

\* sorted(player_info_list, key=itemgetter("name")): stable
RECURSIVE InsertByName(_, _)
InsertByName(x, s) ==
    IF s = << >> THEN <<x>>
    ELSE IF StrLess(x.name, s[1].name) THEN <<x>> \o s
    ELSE <<s[1]>> \o InsertByName(x, Tail(s))
RECURSIVE SortedByName(_)
SortedByName(items) ==
    IF items = << >> THEN << >>
    ELSE InsertByName(items[Len(items)],
                      SortedByName(SubSeq(items, 1, Len(items) - 1)))

\* `if server_info:` and len(player_info_list)
Truthy(d) == IF d.kind = "list" THEN Len(d.items) > 0 ELSE d.len > 0
PyLen(d)  == IF d.kind = "list" THEN Len(d.items) ELSE d.len

\* format_presence: the game text is formatted from server_info itself, the
\* local `map` with its "nowhere" default is not used
format_presence(server_info) ==
    IF Truthy(server_info)
    THEN [game |-> [text |-> "Zeus on {map} ({player_count}/{player_limit})",
                    map |-> server_info.map,
                    player_count |-> server_info.player_count,
                    player_limit |-> server_info.player_limit],
          status |-> "online"]
    ELSE [game |-> "None", status |-> "dnd"]

\* dict.setdefault read back: the value under key k, or the default
GetDefault(d, k, default) == IF k \in DOMAIN d THEN d[k] ELSE default

\* format_embed: line 132 formats {player_count}/{player_limit} from
\* server_info, which has no such keys when it is the empty dict
format_embed(server_info, player_info_list) ==
    IF ~({"player_count", "player_limit"} \subseteq DOMAIN server_info)
    THEN Raised("KeyError")
    ELSE [kind |-> "embed",
          status |-> IF Truthy(server_info) THEN "Online" ELSE "Offline",
          title |-> GetDefault(server_info, "name", "Unknown Server Name"),
          map |-> GetDefault(server_info, "map", "nowhere"),
          mission |-> GetDefault(server_info, "mission", "none"),
          player_count |-> server_info.player_count,
          player_limit |-> server_info.player_limit,
          players |-> IF PyLen(player_info_list) > 0
                      THEN [i \in 1 .. PyLen(player_info_list) |->
                              [name |-> SortedByName(player_info_list.items)[i].name,
                               time |-> SortedByName(player_info_list.items)[i].time]]
                      ELSE << >>]

\* what A2S_info() and A2S_players() hand to the decoders in a cycle: b""
\* (timeout) or a reply of the game server
BotInfoResponses == {<< >>, Scenario \o <<7, 8>>, ServerInfoReply}
BotPlayersResponses ==
    {<< >>, Hdr(68) \o <<0>>, PlayerMsg(<<1>>), PlayerMsg(<<2, 1>>), PlayerMsg(<<3>>)}

\* get_status: the exception that leaves it, or the pair (embed, presence)
get_status(info_response, players_response) ==
    LET server_info == InfoDecode(info_response)
        player_into_list == PlayersDecode(players_response)
    IN  IF player_into_list.kind = "raise" THEN player_into_list
        ELSE IF format_embed(server_info, player_into_list).kind = "raise"
          THEN format_embed(server_info, player_into_list)
        ELSE [kind |-> "tuple",
              embed |-> format_embed(server_info, player_into_list),
              presence |-> format_presence(server_info)]

\* the process starts: __init__ reads CHANNEL_FILE and schedules worker()
BotStart ==
    /\ bot.pc \in {"off", "dead", "exit"}
    /\ bot' = [bot EXCEPT !.pc = "ready", !.closed = FALSE,
                          !.message = MessageIdAtStart(bot.file),
                          !.server_info = Pending, !.player_info_list = Pending,
                          !.embed = Pending, !.presence = Pending,
                          !.error = "", !.cycle = NoCycle, !.created_last = << >>]
    /\ UNCHANGED <<clientVars, loop, net, legacy>>

\* `await self.wait_until_ready()`
BotReady ==
    /\ bot.pc = "ready"
    /\ bot' = [bot EXCEPT !.pc = "loop"]
    /\ UNCHANGED <<clientVars, loop, net, legacy>>

\* the bot is closed (logout, lost connection)
BotClose ==
    /\ bot.pc \notin {"off", "dead", "exit"}
    /\ ~bot.closed
    /\ bot' = [bot EXCEPT !.closed = TRUE]
    /\ UNCHANGED <<clientVars, loop, net, legacy>>

\* `while(not self.is_closed)` is false
BotLoopExit ==
    /\ bot.pc = "loop"
    /\ bot.closed
    /\ bot' = [bot EXCEPT !.pc = "exit"]
    /\ UNCHANGED <<clientVars, loop, net, legacy>>

\* send_status up to its first await: get_status() returns
BotGetStatus ==
    /\ bot.pc = "loop"
    /\ ~bot.closed
    /\ \E i \in BotInfoResponses, p \in BotPlayersResponses :
         /\ get_status(i, p).kind = "tuple"
         /\ bot' = [bot EXCEPT !.pc = "change_presence",
                               !.server_info = InfoDecode(i),
                               !.player_info_list = PlayersDecode(p),
                               !.embed = get_status(i, p).embed,
                               !.presence = get_status(i, p).presence,
                               !.cycle = NoCycle]
    /\ UNCHANGED <<clientVars, loop, net, legacy>>

\* get_status() raises: the call is outside the try statement, the exception
\* leaves send_status and worker, and the task ends
BotGetStatusRaises ==
    /\ bot.pc = "loop"
    /\ ~bot.closed
    /\ \E i \in BotInfoResponses, p \in BotPlayersResponses :
         /\ get_status(i, p).kind = "raise"
         /\ bot' = [bot EXCEPT !.pc = "dead", !.error = get_status(i, p).exc,
                               !.server_info = InfoDecode(i),
                               !.player_info_list = PlayersDecode(p),
                               !.embed = Pending, !.presence = Pending,
                               !.cycle = NoCycle]
    /\ UNCHANGED <<clientVars, loop, net, legacy>>

\* `await self.change_presence(**presence)`
BotChangePresence ==
    /\ bot.pc = "change_presence"
    /\ \/ bot' = [bot EXCEPT !.pc = "get_message"]
       \/ bot' = [bot EXCEPT !.pc = "sleep", !.error = "HTTPException"]
    /\ UNCHANGED <<clientVars, loop, net, legacy>>

\* `self.message = await self.get_message(self.channel, self.message.id)`
BotGetMessage ==
    /\ bot.pc = "get_message"
    /\ \/ /\ bot.message \in bot.channel
          /\ bot' = [bot EXCEPT !.pc = "update_message", !.created_last = << >>]
       \/ /\ bot.message \notin bot.channel
          /\ bot' = [bot EXCEPT !.pc = "create_message", !.cycle.notfound = TRUE,
                                !.created_last = << >>]
       \/ bot' = [bot EXCEPT !.pc = "sleep", !.error = "HTTPException",
                             !.created_last = << >>]
    /\ UNCHANGED <<clientVars, loop, net, legacy>>

\* `await self.update_message(embed=embed)`
BotUpdateMessage ==
    /\ bot.pc = "update_message"
    /\ \/ /\ bot.message \in bot.channel
          /\ bot' = [bot EXCEPT !.pc = "sleep", !.cycle.edited = TRUE]
       \/ /\ bot.message \notin bot.channel
          /\ bot' = [bot EXCEPT !.pc = "create_message", !.cycle.notfound = TRUE]
       \/ bot' = [bot EXCEPT !.pc = "sleep", !.error = "HTTPException"]
    /\ UNCHANGED <<clientVars, loop, net, legacy>>

\* variant: the created message is not kept as the tracked message
BotCreateMessageKeepsOld ==
    /\ bot.pc = "create_message"
    /\ \/ /\ bot.fresh <= MaxMessages
          /\ bot' = [bot EXCEPT !.pc = "sleep",
                                !.channel = @ \cup {str(bot.fresh)},
                                !.fresh = @ + 1,
                                !.file = [present |-> TRUE,
                                          bytes |-> ToBytes8(int(str(bot.fresh)))],
                                !.cycle.created = TRUE,
                                !.created_last = str(bot.fresh)]
       \/ bot' = [bot EXCEPT !.pc = "sleep", !.error = "HTTPException"]
    /\ UNCHANGED <<clientVars, loop, net, legacy>>

\* the NotFound handler: create_message, then the id goes to CHANNEL_FILE
BotCreateMessage ==
    /\ bot.pc = "create_message"
    /\ \/ /\ bot.fresh <= MaxMessages
          /\ bot' = [bot EXCEPT !.pc = "sleep",
                                !.message = str(bot.fresh),
                                !.channel = @ \cup {str(bot.fresh)},
                                !.fresh = @ + 1,
                                !.file = [present |-> TRUE,
                                          bytes |-> ToBytes8(int(str(bot.fresh)))],
                                !.cycle.created = TRUE,
                                !.created_last = str(bot.fresh)]
       \/ bot' = [bot EXCEPT !.pc = "sleep", !.error = "HTTPException"]
    /\ UNCHANGED <<clientVars, loop, net, legacy>>

\* `await asyncio.sleep(self.info_update_timeout)`, back to the while test
BotSleep ==
    /\ bot.pc = "sleep"
    /\ bot' = [bot EXCEPT !.pc = "loop",
                          !.server_info = Pending, !.player_info_list = Pending,
                          !.embed = Pending, !.presence = Pending, !.error = ""]
    /\ UNCHANGED <<clientVars, loop, net, legacy>>

\* somebody deletes a message of the channel
ChannelDelete ==
    /\ bot.pc # "off"
    /\ \E id \in bot.channel : bot' = [bot EXCEPT !.channel = @ \ {id}]
    /\ UNCHANGED <<clientVars, loop, net, legacy>>

BotNext ==
    \/ BotStart
    \/ BotReady
    \/ BotClose
    \/ BotLoopExit
    \/ BotGetStatus
    \/ BotGetStatusRaises
    \/ BotChangePresence
    \/ BotGetMessage
    \/ BotUpdateMessage
    \/ BotCreateMessage
    \/ BotSleep
    \/ ChannelDelete

BotSpec == Init /\ [][BotNext]_vars

(***************************************************************************)
(* The legacy module (src/ArmaServerQuery/ArmaServerQuery.py): ArmaServer  *)
(* holds the attributes, SteamServerQuery fills them in, updateInfo runs   *)
(* the info query and, if it succeeded, the player query.                  *)
(***************************************************************************)
\* bytes.decode("iso-8859-1"): every byte is the code point of that number
decode_latin1(b) == [i \in 1 .. Len(b) |-> b[i]]

\* status1 | status2 for the statuses 0 and 1
BitOr(a, b) == (a + b) - a * b

\* the datagrams delivered to the legacy client
LegacyDatagrams ==
    {ServerInfoReply, Scenario \o <<7, 8>>, ServerChallengeReply,
     Hdr(68) \o <<0>>, PlayerMsg(<<1>>), PlayerMsg(<<2, 1>>), PlayerMsg(<<3>>)}

\* the while loop of A2S_PLAYER: records are appended to server.playerList
\* in place, so an exception leaves the records appended so far
RECURSIVE LegacyPlayersLoop(_, _, _)
LegacyPlayersLoop(response, idx_start, playerList) ==
    LET idx_max == Len(response) - 1
        idx_end == Find(response, 0, idx_start)
        idx     == 1 + idx_end
        raw     == Slice(response, idx + 4, idx + 8)
    IN  IF idx_start > idx_max \/ idx_end < 0 \/ idx + 7 > idx_max
          THEN [raised |-> "", playerList |-> playerList]
        ELSE IF idx > idx_max THEN [raised |-> "IndexError", playerList |-> playerList]
        ELSE IF Len(raw) # 4 THEN [raised |-> "struct.error", playerList |-> playerList]
        ELSE IF FloatNotFinite(raw)
          THEN [raised |-> "ValueError", playerList |-> playerList]
        ELSE LegacyPlayersLoop(response, idx + 9,
                 Append(playerList,
                        [name  |-> decode_latin1(Slice(response, idx_start, idx_end)),
                         score |-> At(response, idx),
                         time  |-> TimeOf(raw)]))

\* updateInfo up to the recvfrom of A2S_INFO
LegacyUpdateInfo ==
    /\ legacy.pc \in {"idle", "raised"}
    /\ legacy' = [legacy EXCEPT !.pc = "info_wait", !.client = "socket",
                                !.sent = <<A2S_INFO>>, !.returns = << >>,
                                !.ret = << >>, !.postfix = << >>]
    /\ UNCHANGED <<clientVars, loop, net, bot>>

\* variant: a timed-out info query leaves the player list alone
LegacyInfoTimeoutKeepsPlayers ==
    /\ legacy.pc = "info_wait"
    /\ legacy' = [legacy EXCEPT !.pc = "idle", !.map = << >>, !.mission = << >>,
                                !.playerNumbers = <<0, 0>>,
                                !.online = FALSE,
                                !.returns = <<[method |-> "A2S_INFO", status |-> 1]>>,
                                !.ret = <<BitOr(1, 1)>>]
    /\ UNCHANGED <<clientVars, loop, net, bot>>

\* A2S_INFO times out and returns 1; updateInfo sets online to False, takes
\* 1 for status2 and returns
LegacyInfoTimeout ==
    /\ legacy.pc = "info_wait"
    /\ legacy' = [legacy EXCEPT !.pc = "idle", !.map = << >>, !.mission = << >>,
                                !.playerNumbers = <<0, 0>>, !.playerList = << >>,
                                !.online = FALSE,
                                !.returns = <<[method |-> "A2S_INFO", status |-> 1]>>,
                                !.ret = <<BitOr(1, 1)>>]
    /\ UNCHANGED <<clientVars, loop, net, bot>>

\* A2S_INFO receives a datagram, stores the fields and returns 0; updateInfo
\* sets online to True and A2S_PLAYER sends the challenge query
LegacyInfoRecv ==
    /\ legacy.pc = "info_wait"
    /\ \E d \in LegacyDatagrams :
         legacy' = [legacy EXCEPT
           !.pc = "challenge_wait",
           !.response = d,
           !.name = decode_latin1(Slice(d, NameStart(d), NameEnd(d))),
           !.map = decode_latin1(Slice(d, MapStart(d), MapEnd(d))),
           !.mission = decode_latin1(Slice(d, MissionStart(d), MissionEnd(d))),
           !.playerNumbers =
               <<IntFromBytes(Slice(d, CountIdx(d), CountIdx(d) + 1)),
                 IntFromBytes(Slice(d, CountIdx(d) + 1, CountIdx(d) + 2))>>,
           !.online = TRUE,
           !.returns = <<[method |-> "A2S_INFO", status |-> 0]>>,
           !.sent = Append(@, A2S_PLAYER_PREFIX \o A2S_PLAYER_CHALLENGE_POSTFIX)]
    /\ UNCHANGED <<clientVars, loop, net, bot>>

\* the challenge query or the data query times out: A2S_PLAYER returns 1
LegacyPlayerTimeout ==
    /\ legacy.pc \in {"challenge_wait", "data_wait"}
    /\ legacy' = [legacy EXCEPT !.pc = "idle", !.playerList = << >>,
                                !.postfix = << >>,
                                !.returns = Append(@, [method |-> "A2S_PLAYER",
                                                       status |-> 1]),
                                !.ret = <<BitOr(legacy.returns[1].status, 1)>>]
    /\ UNCHANGED <<clientVars, loop, net, bot>>

\* the challenge response arrives: the data query is sent
LegacyChallengeRecv ==
    /\ legacy.pc = "challenge_wait"
    /\ \E d \in LegacyDatagrams :
         legacy' = [legacy EXCEPT
           !.pc = "data_wait",
           !.response = d,
           !.postfix = SliceFrom(d, 5),
           !.sent = Append(@, A2S_PLAYER_PREFIX \o SliceFrom(d, 5))]
    /\ UNCHANGED <<clientVars, loop, net, bot>>

\* the data response repeats the challenge response: A2S_PLAYER returns 1
LegacyStaleEcho ==
    /\ legacy.pc = "data_wait"
    /\ \E d \in LegacyDatagrams :
         /\ legacy.postfix = SliceFrom(d, 5)
         /\ legacy' = [legacy EXCEPT
              !.pc = "idle", !.response = d, !.playerList = << >>,
              !.postfix = << >>,
              !.returns = Append(@, [method |-> "A2S_PLAYER", status |-> 1]),
              !.ret = <<BitOr(legacy.returns[1].status, 1)>>]
    /\ UNCHANGED <<clientVars, loop, net, bot>>

\* the data response is decoded: A2S_PLAYER returns 0
LegacyDataRecv ==
    /\ legacy.pc = "data_wait"
    /\ \E d \in LegacyDatagrams :
         /\ legacy.postfix # SliceFrom(d, 5)
         /\ LegacyPlayersLoop(d, 1 + Find(d, 0, 0), << >>).raised = ""
         /\ legacy' = [legacy EXCEPT
              !.pc = "idle", !.response = d, !.postfix = << >>,
              !.playerList = LegacyPlayersLoop(d, 1 + Find(d, 0, 0), << >>).playerList,
              !.returns = Append(@, [method |-> "A2S_PLAYER", status |-> 0]),
              !.ret = <<BitOr(legacy.returns[1].status, 0)>>]
    /\ UNCHANGED <<clientVars, loop, net, bot>>

\* the decoding of the data response raises: the exception leaves A2S_PLAYER
\* and updateInfo, the records appended so far stay in playerList
LegacyDataRaises ==
    /\ legacy.pc = "data_wait"
    /\ \E d \in LegacyDatagrams :
         /\ legacy.postfix # SliceFrom(d, 5)
         /\ LegacyPlayersLoop(d, 1 + Find(d, 0, 0), << >>).raised # ""
         /\ legacy' = [legacy EXCEPT
              !.pc = "raised", !.response = d, !.postfix = << >>,
              !.playerList = LegacyPlayersLoop(d, 1 + Find(d, 0, 0), << >>).playerList]
    /\ UNCHANGED <<clientVars, loop, net, bot>>

LegacyNext ==
    \/ LegacyUpdateInfo
    \/ LegacyInfoTimeout
    \/ LegacyInfoRecv
    \/ LegacyPlayerTimeout
    \/ LegacyChallengeRecv
    \/ LegacyStaleEcho
    \/ LegacyDataRecv
    \/ LegacyDataRaises

LegacySpec == Init /\ [][LegacyNext]_vars

(***************************************************************************)
(* Properties.                                                             *)
(***************************************************************************)
PlayersDone == pc = "idle" /\ op = "players"
InfoDone    == pc = "idle" /\ op = "info"

\* the bytes of d from offset 5 on
Tail5(d) == IF Len(d) <= 5 THEN << >> ELSE SubSeq(d, 6, Len(d))

\* a players() call whose second response repeats the challenge response
\* from offset 5 on
EchoCase ==
    /\ PlayersDone
    /\ Len(rcvd) = 2
    /\ rcvd[1].ok
    /\ rcvd[2].ok
    /\ Tail5(rcvd[2].data) = Tail5(rcvd[1].data)

\* a players() call one of whose round trips timed out
TimeoutCase == PlayersDone /\ \E i \in 1 .. Len(rcvd) : ~rcvd[i].ok

C2_ChallengeTimeoutStops ==
    (op = "players" /\ Len(rcvd) >= 1 /\ ~rcvd[1].ok)
        => /\ pc = "idle"
           /\ result = EmptyDict
           /\ Len(rcvd) = 1
           /\ Len(sent) = 1
           /\ sent[1].site = "challenge"

C2_Witness == op = "players" /\ rcvd = <<TimedOut>> /\ pc = "idle"

\* C3 as stated: a challenge response shorter than 9 bytes ends the call
\* with the failure value and no data request is sent.
C3_ShortChallengeFails ==
    (op = "players" /\ Len(rcvd) >= 1 /\ rcvd[1].ok /\ Len(rcvd[1].data) < 9)
        => /\ pc = "idle"
           /\ result = EmptyDict
           /\ Len(sent) = 1

\* C4 as stated: for a challenge response of at least 9 bytes the data
\* request is exactly FF FF FF FF 55 followed by the bytes at offsets 5..8
\* of the challenge response.
C4_DataRequestIsNineBytes ==
    (op = "players" /\ Len(rcvd) >= 1 /\ rcvd[1].ok /\ Len(rcvd[1].data) >= 9)
        => /\ Len(sent) = 2
           /\ sent[2].bytes = <<255, 255, 255, 255, 85>> \o SubSeq(rcvd[1].data, 6, 9)

\* the text of the scenario's three fields
ScenarioName    == <<77, 121, 83, 101, 114, 118, 101, 114>>
ScenarioMap     == <<100, 101, 95, 100, 117, 115, 116>>
ScenarioMission == <<98, 114, 105, 101, 102, 105, 110, 103>>

\* an info() call that received d
InfoGot(d) == InfoDone /\ rcvd = <<Got(d)>>

\* C5 as stated: the scenario response, whose bytes 05 10 come right after
\* the mission terminator, decodes to MyServer / de_dust / briefing with
\* player count 5 and player limit 16.
C5_ScenarioCountsAdjacent ==
    \A d \in {Scenario, Scenario \o <<7, 8>>} :
        InfoGot(d) => result = InfoDict(ScenarioName, ScenarioMap,
                                        ScenarioMission, 5, 16)

\* C5 as amended: the counts are the bytes 3 and 4 past the mission
\* terminator.  The scenario decodes to MyServer / de_dust / briefing; the
\* bytes 05 10 are skipped and the counts are the two bytes after them
\* (7 and 8 when the response goes on with 07 08, 0 and 0 when it ends
\* there).  A response with two bytes between the mission terminator and
\* 05 10 gives 5 and 16.
C5_ScenarioCountsAfterTwoBytes ==
    /\ InfoGot(Scenario \o <<7, 8>>)
         => result = InfoDict(ScenarioName, ScenarioMap, ScenarioMission, 7, 8)
    /\ InfoGot(Scenario)
         => result = InfoDict(ScenarioName, ScenarioMap, ScenarioMission, 0, 0)
    /\ InfoGot(Hdr(73) \o <<17, 65, 0, 66, 0, 67, 0, 68, 0, 9, 9, 5, 16, 1>>)
         => result = InfoDict(<<65>>, <<66>>, <<68>>, 5, 16)

C5_Witness ==
    /\ InfoGot(Scenario \o <<7, 8>>)
    /\ result.kind = "dict"
    /\ result.len = 5
    /\ result.player_count = 7

\* d holds no 0x11 byte
NoMarker(d) == \A i \in 1 .. Len(d) : d[i] # 17

\* d holds fewer than four zero bytes (the terminators of name, map, the
\* skipped field and mission)
FewTerminators(d) == Cardinality({i \in 1 .. Len(d) : d[i] = 0}) < 4

\* C6 as stated: a non-empty info response without a 0x11 byte, or too
\* short to hold the fields, gives the "no info" value.
C6_MalformedInfoFails ==
    (/\ InfoDone
     /\ rcvd[1].ok
     /\ rcvd[1].data # << >>
     /\ (NoMarker(rcvd[1].data) \/ FewTerminators(rcvd[1].data)))
        => result = EmptyDict

\* the offset of the name terminator of record k in PlayerMsg(ts)
TermOffset(ts, k) ==
    6 + Len(RecsBytes(SubSeq(ts, 1, k - 1), 1)) + 1 + Len(RecName[ts[k]])

\* the record each template decodes to (template 3 holds NaN and yields none)
ExpName == << <<65>>, <<192, 65533>>, <<67>> >>
ExpTime == << [huge |-> FALSE, hours |-> 0, minutes |-> 1],
              [huge |-> FALSE, hours |-> -1, minutes |-> 59],
              [huge |-> FALSE, hours |-> 0, minutes |-> 0] >>
NotFinite(t) == t = 3
ExpRecord(t) == [name |-> ExpName[t], score |-> RecScore[t], time |-> ExpTime[t]]
ExpList(ts, n) == [i \in 1 .. n |-> ExpRecord(ts[i])]

\* a players() call that received a data response and decoded it
PlayersDecoded ==
    /\ PlayersDone
    /\ Len(rcvd) = 2
    /\ rcvd[2].ok
    /\ Tail5(rcvd[2].data) # Tail5(rcvd[1].data)

\* what the decoder returns when it stops after records 1..n of ts
StopsAfter(ts, n) ==
    IF \E j \in 1 .. n : NotFinite(ts[j]) THEN Raised("ValueError")
    ELSE PyList(ExpList(ts, n))

\* one case per record k of a generated reply: the reply, the offset of
\* the record's name terminator, the list of the records before it, and the
\* outcome of decoding up to, and through, the record
TruncationCases ==
    {[msg    |-> PlayerMsg(p[1]),
      term   |-> TermOffset(p[1], p[2]),
      list   |-> PyList(ExpList(p[1], p[2] - 1)),
      before |-> StopsAfter(p[1], p[2] - 1),
      upto   |-> StopsAfter(p[1], p[2])] :
        p \in {q \in RecSeqs \X (1 .. MaxRecords) : q[2] <= Len(q[1])}}

\* d is the first Len(d) bytes of a generated reply
CutOf(d, msg) == Len(d) <= Len(msg) /\ d = SubSeq(msg, 1, Len(d))

\* a players() call that decoded the first n bytes of PlayerMsg(ts)
PlayersGot(ts, n) ==
    /\ PlayersDecoded
    /\ Len(rcvd[2].data) = n
    /\ CutOf(rcvd[2].data, PlayerMsg(ts))

\* the bytes of d after the name terminator at offset term
Following(d, term) == Len(d) - 1 - term

C8_NoErrorEscapes == result.kind # "raise"

\* C9: info() sends once and receives at most once; players() sends the
\* challenge query, then at most one data query, and the data query only
\* after the challenge query's receive returned a datagram; no query is
\* sent twice and every send is followed by at most one receive.
C9_NoRetries ==
    /\ Len(rcvd) <= Len(sent)
    /\ pc # "idle" => Len(rcvd) = Len(sent) - 1
    /\ op = "info" => Len(sent) = 1 /\ sent[1].site = "info"
    /\ op = "players"
         => /\ Len(sent) \in {1, 2}
            /\ sent[1].site = "challenge"
            /\ Len(sent) = 2
                 => sent[2].site = "data" /\ Len(rcvd) >= 1 /\ rcvd[1].ok

C9_Witness ==
    /\ PlayersDone
    /\ Len(sent) = 2
    /\ Len(rcvd) = 2
    /\ ~rcvd[2].ok

\* C10 as stated: every call leaves every attribute of the client object
\* as the constructor set it.
C10_AttributesUnchanged == attrs = InitAttrs

RawPlayers ==
    IF ~rcvd[Len(rcvd)].ok THEN << >>
    ELSE IF Tail5(rcvd[2].data) = Tail5(rcvd[1].data) THEN << >>
    ELSE rcvd[2].data

\* C12 as stated: on an empty byte sequence players() returns the empty
\* player list, the value a response without records gives.
C12_EmptyResponseGivesEmptyList ==
    (PlayersDone /\ RawPlayers = << >>) => result = PyList(<< >>)

\* the records of a packed reply read with the cursor right after the
\* float, and as the code reads them: from the second record on the name lacks its first byte
ExpNameCut == << << >>, <<65533, 65533>> >>
PackedAsClaimed(ts) == PyList(ExpList(ts, Len(ts)))
PackedAsDecoded(ts) ==
    PyList([i \in 1 .. Len(ts) |->
              IF i = 1 THEN ExpRecord(ts[i])
              ELSE [ExpRecord(ts[i]) EXCEPT !.name = ExpNameCut[ts[i]]]])

PackedCases ==
    {[msg |-> PackedMsg(ts), claimed |-> PackedAsClaimed(ts),
      decoded |-> PackedAsDecoded(ts)] : ts \in PackedSeqs}

\* complete replies with an index byte before every record
IndexedCases ==
    {[msg |-> PlayerMsg(ts), decoded |-> StopsAfter(ts, Len(ts))] : ts \in RecSeqs}

\* C13 as stated: the cursor for the next name is the byte right after the
\* connected-seconds field, so a response of N back-to-back complete
\* records gives N records with the full names, in wire order.
C13_BackToBackRecords ==
    PlayersDecoded =>
      \A c \in PackedCases : rcvd[2].data = c.msg => result = c.claimed

\* C13 as amended: the cursor for the next name is one byte further, the
\* second byte after the connected-seconds field.  A response whose records
\* are each preceded by one byte gives all records with the full names, in
\* wire order (or the ValueError of a record whose time is not finite); in
\* a response of back-to-back records every name after the first lacks its
\* first byte.
C13_OneByteBetweenRecords ==
    PlayersDecoded =>
      /\ \A c \in IndexedCases : rcvd[2].data = c.msg => result = c.decoded
      /\ \A c \in PackedCases : rcvd[2].data = c.msg => result = c.decoded

C13_Witness ==
    /\ PlayersGot(<<2, 1>>, Len(PlayerMsg(<<2, 1>>)))
    /\ result.kind = "list"
    /\ Len(result.items) = 2
    /\ result.items[1].name = <<192, 65533>>
    /\ result.items[2].name = <<65>>

\* offsets (from 0) of the first 0x11 byte and of the zero bytes after it
MarkerAt(d) ==
    CHOOSE i \in 0 .. Len(d) - 1 :
        d[i + 1] = 17 /\ \A j \in 0 .. i - 1 : d[j + 1] # 17
ZerosAfter(d, p) == {i \in p + 1 .. Len(d) - 1 : d[i + 1] = 0}
NthZero(d, p, k) ==
    CHOOSE i \in ZerosAfter(d, p) :
        Cardinality({j \in ZerosAfter(d, p) : j < i}) = k - 1
MarkerAndFourZeros(d) ==
    /\ \E i \in 1 .. Len(d) : d[i] = 17
    /\ Cardinality(ZerosAfter(d, MarkerAt(d))) >= 4
\* the bytes strictly between the offsets a and b, and the byte at offset i
\* (0 when the response ends before it)
Between(d, a, b) == [i \in 1 .. b - a - 1 |-> d[a + i + 1]]
ByteOrZero(d, i) == IF i < Len(d) THEN d[i + 1] ELSE 0

\* C14: for a response with a 0x11 byte followed by at least four zero
\* bytes, the name is the text between the first 0x11 and the next zero,
\* the map the field up to the second zero, the mission the field between
\* the third and the fourth zero (one field skipped), and player_count and
\* player_limit the bytes 3 and 4 places after the fourth zero.
C14_InfoFieldBoundaries ==
    (InfoDone /\ rcvd[1].ok /\ MarkerAndFourZeros(rcvd[1].data)) =>
      LET d == rcvd[1].data
          p == MarkerAt(d)
          m == NthZero(d, p, 4)
      IN  /\ result.name = decode(Between(d, p, NthZero(d, p, 1)))
          /\ result.map = decode(Between(d, NthZero(d, p, 1), NthZero(d, p, 2)))
          /\ result.mission = decode(Between(d, NthZero(d, p, 3), m))
          /\ result.player_count = ByteOrZero(d, m + 3)
          /\ result.player_limit = ByteOrZero(d, m + 4)

C14_Witness ==
    /\ InfoGot(Hdr(73) \o <<17, 65, 0, 66, 0, 67, 0, 68, 0, 9, 9, 5, 16, 1>>)
    /\ result.name = <<65>>
    /\ result.map = <<66>>
    /\ result.mission = <<68>>
    /\ result.player_count = 5
    /\ result.player_limit = 16

\* the stepwise loop returns what PlayersDecode computes
LoopAgreesWithDecode ==
    loop.pc = "done" => loop.result = PlayersDecode(loop.response)

\* C17: every iteration of the loop in players() that does not break moves
\* idx_start strictly forward, and the loop runs at most len(response)
\* iterations.
C17_CursorAdvances ==
    [][(loop.pc = "while" /\ loop' # loop) =>
         /\ loop'.pc = "while" => loop'.idx_start > loop.idx_start
         /\ loop'.iterations <= Len(loop.response)]_vars

\* two iterations ran to the end and the loop has returned
C17_Witness ==
    /\ loop.pc = "done"
    /\ loop.iterations >= 2
    /\ loop.result = PyList(loop.player_list)
    /\ Len(loop.player_list) = 2

\* C16: every datagram a call decodes is the reply to a request sent
\* during that same call; the reply to a request of an earlier call is never
\* consumed by a later call.
C16_RepliesBelongToTheCall ==
    \A i \in 1 .. Len(net.consumed) : net.consumed[i].call = net.call

\* C15: a polling cycle in which the server is offline (info() returns the
\* empty dict and players() returns empty) builds the "Offline" embed and
\* the presence without raising, so the worker goes on to the next cycle.
C15_OfflineCycleBuildsStatus ==
    (bot.server_info = EmptyDict /\ bot.player_info_list = EmptyDict) =>
      /\ bot.pc # "dead"
      /\ bot.embed.kind = "embed"
      /\ bot.embed.status = "Offline"
      /\ bot.presence.status = "dnd"

\* C18 as stated: a message is created only in a cycle that found the
\* tracked message missing, and every other cycle edits the tracked message.
C18_EveryOtherCycleEdits ==
    /\ bot.cycle.created => bot.cycle.notfound
    /\ (bot.pc = "sleep" /\ ~bot.cycle.notfound) => bot.cycle.edited

\* C18 as amended: a message is created only in a cycle in which the lookup
\* or the edit of the tracked message raised NotFound; a cycle that ends
\* without NotFound and without another HTTP error has edited the tracked
\* message; a cycle ended by another HTTP error, or by an exception of
\* get_status, has neither edited nor created; after a creation the tracked
\* id and the id in the channel file are the new message's id, and it is
\* the id the next cycle looks up.
C18_MessageReuse ==
    /\ bot.cycle.created => bot.cycle.notfound /\ ~bot.cycle.edited
    /\ (bot.pc = "sleep" /\ bot.error = "" /\ ~bot.cycle.notfound) => bot.cycle.edited
    /\ (bot.pc = "sleep" /\ bot.error = "" /\ bot.cycle.notfound) => bot.cycle.created
    /\ (bot.pc = "sleep" /\ bot.error = "HTTPException")
         => ~bot.cycle.edited /\ ~bot.cycle.created
    /\ bot.pc = "dead" => ~bot.cycle.edited /\ ~bot.cycle.created
    /\ bot.cycle.created
         => /\ bot.message = bot.created_last
            /\ bot.file = [present |-> TRUE, bytes |-> ToBytes8(int(bot.message))]
    /\ (bot.created_last # << >> /\ bot.pc # "off") => bot.message = bot.created_last
    /\ (bot.file.present /\ bot.pc # "off")
         => bot.message = str(FromBytesBig(bot.file.bytes))

\* a cycle has edited the message an earlier cycle created
C18_Witness ==
    /\ bot.pc = "sleep"
    /\ bot.cycle.edited
    /\ ~bot.cycle.created
    /\ bot.message = str(1)
    /\ bot.file = [present |-> TRUE, bytes |-> ToBytes8(1)]

\* the player queries among the sendto calls of the running update
LegacyPlayerQueries ==
    {i \in 1 .. Len(legacy.sent) :
       SubSeq(legacy.sent[i], 1, 5) = A2S_PLAYER_PREFIX}

\* C19: in the legacy module, whenever online is False the player list is
\* empty and the player numbers are (0,0); a player query is sent only in
\* an update whose info query returned 0; and updateInfo returns 0 exactly
\* when the info query and the player query both returned 0.
C19_LegacyUpdateInfo ==
    /\ ~legacy.online
         => legacy.playerList = << >> /\ legacy.playerNumbers = <<0, 0>>
    /\ LegacyPlayerQueries # {}
         => /\ Len(legacy.returns) >= 1
            /\ legacy.returns[1] = [method |-> "A2S_INFO", status |-> 0]
    /\ legacy.ret # << >>
         => (legacy.ret = <<0>>
               <=> legacy.returns = <<[method |-> "A2S_INFO", status |-> 0],
                                      [method |-> "A2S_PLAYER", status |-> 0]>>)

\* a server that was online with a player is found offline by the next update
C19_Witness ==
    /\ legacy.pc = "idle"
    /\ ~legacy.online
    /\ legacy.ret = <<1>>
    /\ legacy.name = <<65>>
    /\ legacy.response = PlayerMsg(<<1>>)

=============================================================================
